---- MODULE Spec2Model ----
(***************************************************************************)
(* Rice Disease Q&A Assistant (src/app.py): a Streamlit page script that   *)
(* is re-executed on every user interaction and on every st.rerun().       *)
(*                                                                         *)
(* A text is a sequence of chunks (strings); the text it denotes is the    *)
(* concatenation of its chunks.  Questions, transcripts and keywords are   *)
(* chunked one character per chunk; literal message parts and the          *)
(* knowledge-base descriptions are single chunks.  A character outside     *)
(* ASCII, or an ASCII control character without an escape, is the chunk    *)
(* "U+XXXX" naming its code point.  lower(), title() and strip() follow    *)
(* Python on the ASCII characters and on the code points listed in their   *)
(* tables; the input sets of the model hold no other characters.           *)
(* An optional value is None (<<>>) or Some(x) (<<x>>).                    *)
(***************************************************************************)
EXTENDS Integers, Sequences, FiniteSets, TLC

\* ------------------------------------------------------------------------
\* Bounds of the model
\* ------------------------------------------------------------------------
MaxHistory == 5
MaxFiles == 1

\* ------------------------------------------------------------------------
\* Optional values
\* ------------------------------------------------------------------------
None == <<>>
Some(x) == <<x>>

\* ------------------------------------------------------------------------
\* Python string operations on character sequences
\* ------------------------------------------------------------------------
UpperCase ==
    <<"A", "B", "C", "D", "E", "F", "G", "H", "I", "J", "K", "L", "M",
      "N", "O", "P", "Q", "R", "S", "T", "U", "V", "W", "X", "Y", "Z">>
LowerCase ==
    <<"a", "b", "c", "d", "e", "f", "g", "h", "i", "j", "k", "l", "m",
      "n", "o", "p", "q", "r", "s", "t", "u", "v", "w", "x", "y", "z">>

\* Characters c with c.isspace(): the ones str.strip() removes
Whitespace ==
    {" ", "\t", "\n", "\r", "\f", "U+000B", "U+001C", "U+001D", "U+001E",
     "U+001F", "U+0085", "U+00A0", "U+1680", "U+2000", "U+2001", "U+2002",
     "U+2003", "U+2004", "U+2005", "U+2006", "U+2007", "U+2008", "U+2009",
     "U+200A", "U+2028", "U+2029", "U+202F", "U+205F", "U+3000"}

\* Upper-case characters: the ASCII capitals, E acute (U+00C9), KELVIN SIGN
\* (U+212A) and I with dot above (U+0130)
IsUpper(c) ==
    \/ \E i \in DOMAIN UpperCase : UpperCase[i] = c
    \/ c \in {"U+00C9", "U+212A", "U+0130"}
\* Lower-case characters: the ASCII small letters and e acute (U+00E9)
IsLower(c) ==
    \/ \E i \in DOMAIN LowerCase : LowerCase[i] = c
    \/ c = "U+00E9"
IsCased(c) == IsUpper(c) \/ IsLower(c)

\* c.lower(), as a sequence: U+0130 lower-cases to two characters
LowerChar(c) ==
    IF \E i \in DOMAIN UpperCase : UpperCase[i] = c
    THEN <<LowerCase[CHOOSE i \in DOMAIN UpperCase : UpperCase[i] = c]>>
    ELSE IF c = "U+00C9" THEN <<"U+00E9">>
    ELSE IF c = "U+212A" THEN <<"k">>
    ELSE IF c = "U+0130" THEN <<"i", "U+0307">>
    ELSE <<c>>
\* c.title() of a single character
TitleChar(c) ==
    IF \E i \in DOMAIN LowerCase : LowerCase[i] = c
    THEN <<UpperCase[CHOOSE i \in DOMAIN LowerCase : LowerCase[i] = c]>>
    ELSE IF c = "U+00E9" THEN <<"U+00C9">>
    ELSE <<c>>

\* str.lower()
RECURSIVE Lower(_)
Lower(s) ==
    IF s = <<>> THEN <<>> ELSE LowerChar(Head(s)) \o Lower(Tail(s))

\* str.title(): a cased character is title-cased when the character before
\* it is uncased (or there is none) and lower-cased otherwise
RECURSIVE TitleFrom(_, _)
TitleFrom(s, previous_is_cased) ==
    IF s = <<>> THEN <<>>
    ELSE IF IsCased(Head(s))
         THEN (IF previous_is_cased THEN LowerChar(Head(s))
                                    ELSE TitleChar(Head(s)))
                  \o TitleFrom(Tail(s), TRUE)
         ELSE <<Head(s)>> \o TitleFrom(Tail(s), FALSE)
Title(s) == TitleFrom(s, FALSE)

RECURSIVE LStrip(_)
LStrip(s) ==
    IF s # <<>> /\ Head(s) \in Whitespace THEN LStrip(Tail(s)) ELSE s
RECURSIVE RStrip(_)
RStrip(s) ==
    IF s # <<>> /\ s[Len(s)] \in Whitespace
    THEN RStrip(SubSeq(s, 1, Len(s) - 1)) ELSE s
\* str.strip()
Strip(s) == RStrip(LStrip(s))

\* `sub in text` for Python strings
KeywordInSwapped(sub, text) ==
    \/ \E i \in 1..(Len(text) - Len(sub) + 1) :
          SubSeq(text, i, i + Len(sub) - 1) = sub
    \/ \E i \in 1..(Len(sub) - Len(text) + 1) :
          SubSeq(sub, i, i + Len(text) - 1) = text
KeywordIn(sub, text) ==
    \E i \in 1..(Len(text) - Len(sub) + 1) :
        SubSeq(text, i, i + Len(sub) - 1) = sub

\* Python truthiness of an optional string
Truthy(q) == q # None /\ Len(q[1]) > 0

\* ------------------------------------------------------------------------
\* Knowledge base: the dict `sections` in insertion (= iteration) order
\* ------------------------------------------------------------------------
sections ==
    <<
       [keyword |-> <<"b", "a", "c", "t", "e", "r", "i", "a", "l", " ", "l", "e", "a", "f", " ", "b", "l", "i", "g", "h", "t">>,
        section |-> "Bacterial Leaf Blight is caused by the bacterium Xanthomonas oryzae pv. oryzae. It affects leaves, leading to yellowing and wilting. Management includes using resistant varieties and proper field sanitation."],
       [keyword |-> <<"b", "a", "c", "t", "e", "r", "i", "a", "l", " ", "l", "e", "a", "f", " ", "s", "t", "r", "e", "a", "k">>,
        section |-> "Bacterial Leaf Streak is caused by Xanthomonas oryzae pv. oryzicola. It causes narrow, water-soaked streaks on leaves. Control methods include using certified seeds and avoiding field flooding."],
       [keyword |-> <<"b", "a", "k", "a", "n", "a", "e">>,
        section |-> "Bakanae Disease, also known as 'Foolish Seedling', is caused by the fungus Fusarium fujikuroi and leads to elongated, thin seedlings. Seed treatment with fungicides is recommended."],
       [keyword |-> <<"b", "r", "o", "w", "n", " ", "s", "p", "o", "t">>,
        section |-> "Brown Spot is caused by Bipolaris oryzae. It appears as brown circular spots on leaves, affecting photosynthesis. Improve soil fertility and use resistant varieties."],
       [keyword |-> <<"g", "r", "a", "s", "s", "y", " ", "s", "t", "u", "n", "t">>,
        section |-> "Rice Grassy Stunt Virus (RGSV) is spread by the brown planthopper and causes stunted growth. Control planthoppers with insecticides and use resistant varieties."],
       [keyword |-> <<"n", "a", "r", "r", "o", "w", " ", "b", "r", "o", "w", "n", " ", "s", "p", "o", "t">>,
        section |-> "Narrow Brown Spot is caused by the fungus Cercospora janseana, leading to narrow brown lesions on leaves. Fungicide application can help control it."],
       [keyword |-> <<"r", "a", "g", "g", "e", "d", " ", "s", "t", "u", "n", "t">>,
        section |-> "Rice Ragged Stunt Virus (RRSV), spread by brown planthoppers, causes ragged leaves and stunted plants. Vector control is essential."],
       [keyword |-> <<"r", "i", "c", "e", " ", "b", "l", "a", "s", "t">>,
        section |-> "Rice Blast is caused by the fungus Magnaporthe oryzae, producing diamond-shaped lesions on leaves. Use resistant varieties and avoid excessive nitrogen."],
       [keyword |-> <<"f", "a", "l", "s", "e", " ", "s", "m", "u", "t">>,
        section |-> "Rice False Smut, caused by Ustilaginoidea virens, produces greenish smut balls on grains. Remove infected plants and use fungicides."],
       [keyword |-> <<"s", "h", "e", "a", "t", "h", " ", "b", "l", "i", "g", "h", "t">>,
        section |-> "Sheath Blight is caused by Rhizoctonia solani and forms lesions on the leaf sheath. Proper spacing and fungicides help control it."],
       [keyword |-> <<"s", "h", "e", "a", "t", "h", " ", "r", "o", "t">>,
        section |-> "Sheath Rot is caused by Sarocladium oryzae, resulting in rotting of the uppermost leaf sheath. Avoid dense planting and use balanced fertilizers."],
       [keyword |-> <<"s", "t", "e", "m", " ", "r", "o", "t">>,
        section |-> "Stem Rot is caused by Sclerotium oryzae, which blackens the base of the stem. Practice field sanitation and crop rotation."],
       [keyword |-> <<"t", "u", "n", "g", "r", "o">>,
        section |-> "Rice Tungro Virus is a dual infection (Rice Tungro Bacilliform and Spherical Viruses), causing yellow-orange leaf discoloration. Control green leafhopper vectors."]
    >>

\* The linear scan of lines 207-211, from entry i on: first match wins
RECURSIVE ScanNoBreak(_, _)
ScanNoBreak(i, question_lower) ==
    IF i > Len(sections)
    THEN [selected_context |-> None, matched_disease |-> None]
    ELSE LET rest == ScanNoBreak(i + 1, question_lower)
         IN  IF KeywordIn(sections[i].keyword, question_lower)
                /\ rest.matched_disease = None
             THEN [selected_context |-> Some(sections[i].section),
                   matched_disease |-> Some(sections[i].keyword)]
             ELSE rest
RECURSIVE Scan(_, _)
Scan(i, question_lower) ==
    IF i > Len(sections)
    THEN [selected_context |-> None, matched_disease |-> None]
    ELSE IF KeywordIn(sections[i].keyword, question_lower)
         THEN [selected_context |-> Some(sections[i].section),
               matched_disease |-> Some(sections[i].keyword)]
         ELSE Scan(i + 1, question_lower)

\* Context selector: question_lower = question.lower(), then the scan
SelectContext(q) == Scan(1, Lower(q))

\* ------------------------------------------------------------------------
\* Messages
\* ------------------------------------------------------------------------
\* The greeting of lines 118 and 286: U+1F44B U+1F3FD is the waving-hand
\* emoji with its skin tone, U+2014 the em dash
Greeting ==
    <<"Hello ", "U+1F44B", "U+1F3FD",
      "! You can type your question about rice diseases ", "U+2014",
      " e.g., 'What causes rice blast?' or 'How to treat bacterial leaf blight?'.">>

NotFoundMessage ==
    <<"I couldn't find specific information about that disease in my knowledge base. \n\nHere are some rice diseases I can help with:\n- Bacterial Leaf Blight\n- Rice Blast  \n- Tungro\n- Brown Spot\n- Sheath Blight\n- False Smut\n- Stem Rot\n- Grassy Stunt\n\nTry asking about one of these, or be more specific in your question!">>

\* f"**About {matched_disease.title()}:**\n\n{answer}"
AboutAnswer(disease, span) ==
    <<"**About ">> \o Title(disease) \o <<":**\n\n", span>>

\* f"I found information about {matched_disease}, but ... {selected_context}"
ErrorAnswer(disease, context) ==
    <<"I found information about ">> \o disease
        \o <<", but encountered an error processing it. Here's what I know:\n\n",
             context>>

UserMessage(text) == [role |-> "user", content |-> text]
BotMessage(text) == [role |-> "bot", content |-> text]
InitialHistory == <<BotMessage(Greeting)>>

\* ------------------------------------------------------------------------
\* Inputs
\* ------------------------------------------------------------------------
T_Narrow == <<"n", "a", "r", "r", "o", "w", " ", "b", "r", "o", "w", "n", " ", "s", "p", "o", "t">>
T_Short == <<"b", "l", "a", "s", "t">>
R_Silent == <<" ", "\r", "\n">>
\* "BAKANAE" with the KELVIN SIGN in place of K, between form feeds and a
\* vertical tab
R_Bakanae == <<"\f", "U+000B", "B", "A", "U+212A", "A", "N", "A", "E", "\f">>
R_Short == <<"\r", "\r", "b", "l", "a", "s", "t", " ">>

\* Texts the user may type into st.chat_input
TypedTexts == {T_Narrow, T_Short}
\* Recordings, each identified with the text Whisper returns for it
Recordings == {R_Silent, R_Short, R_Bakanae}
\* Answer spans the QA pipeline may return
AnswerSpans == {"resistant varieties"}
OutputModes == {"Text only", "Text + Voice"}

\* ------------------------------------------------------------------------
\* State
\* ------------------------------------------------------------------------
VARIABLES
    qa_pipeline,        \* TRUE: the QA model is loaded; FALSE: load_qa_model() returned None
    whisper_available,  \* whisper_model is not None
    session_state,      \* st.session_state: a function whose only key is "history"
    audio_file,         \* value of the st.audio_input widget (kept across reruns)
    text_input,         \* value of the st.chat_input widget (one run only)
    button,             \* "Clear Chat History" pressed (one run only)
    output_mode,        \* value of the st.radio widget
    pc,                 \* position of the script run; "idle" between interactions
    question,           \* script local `question`
    selected_context,   \* script local `selected_context`
    matched_disease,    \* script local `matched_disease`
    answer,             \* script local `answer`
    tmp_path,           \* script local `tmp_path`: the run's .wav file
    tmp_audio,          \* script local `tmp_audio`: the run's .mp3 file
    disk,               \* temporary files that exist on disk
    unlink_failed,      \* files of this run whose os.unlink raised
    transcription,      \* outcome of this run's transcription
    qa_result,          \* outcome of this run's QA call
    clear_requested,    \* the latest user interaction was a press of Clear
    processed,          \* questions answered since the latest interaction
    qa_raised,          \* a QA call raised since the latest interaction
    rerun_called        \* st.rerun() was called since the latest interaction

env == <<qa_pipeline, whisper_available>>
widgets == <<audio_file, text_input, button, output_mode>>
locals == <<question, selected_context, matched_disease, answer>>
files == <<tmp_path, tmp_audio, disk, unlink_failed>>
outcomes == <<transcription, qa_result>>
counters == <<clear_requested, processed, qa_raised, rerun_called>>
vars == <<env, session_state, widgets, pc, locals, files, outcomes, counters>>

history == session_state["history"]
HasHistory == "history" \in DOMAIN session_state

\* tempfile.NamedTemporaryFile(delete=False, suffix=...): a name not in use
\* (names are interchangeable; the least unused index is taken); the disk
\* holds at most MaxFiles temporary files
CanCreate(suffix) == Cardinality(disk) < MaxFiles
NewFile(suffix) ==
    <<suffix, CHOOSE n \in 1..MaxFiles :
                 /\ <<suffix, n>> \notin disk
                 /\ \A m \in 1..(n - 1) : <<suffix, m>> \in disk>>

Init ==
    /\ qa_pipeline \in BOOLEAN
    /\ whisper_available \in BOOLEAN
    /\ session_state = <<>>
    /\ audio_file = None
    /\ text_input = None
    /\ button = FALSE
    /\ output_mode = "Text only"
    /\ pc = "start"
    /\ question = None
    /\ selected_context = None
    /\ matched_disease = None
    /\ answer = None
    /\ tmp_path = None
    /\ tmp_audio = None
    /\ disk = {}
    /\ unlink_failed = {}
    /\ transcription = "none"
    /\ qa_result = "none"
    /\ clear_requested = FALSE
    /\ processed = 0
    /\ qa_raised = FALSE
    /\ rerun_called = FALSE

\* ------------------------------------------------------------------------
\* The end of a script run
\* ------------------------------------------------------------------------
\* The script's local variables are gone
DropLocals ==
    /\ question' = None
    /\ selected_context' = None
    /\ matched_disease' = None
    /\ answer' = None
    /\ tmp_path' = None
    /\ tmp_audio' = None
    /\ unlink_failed' = {}
    /\ transcription' = "none"
    /\ qa_result' = "none"

\* The run ended by itself: the one-run widget values are reset
EndRun ==
    /\ DropLocals
    /\ text_input' = None
    /\ button' = FALSE
    /\ UNCHANGED <<audio_file, output_mode>>

\* ------------------------------------------------------------------------
\* User interactions: each changes one widget and starts a script run.
\* The session is idle, or a run is in progress at a Streamlit call (every
\* position but the two that follow a call directly): the run in progress
\* stops there with a RerunException, which no `except Exception` of the
\* script catches, and the new run starts with the new widget values.
\* ------------------------------------------------------------------------
AtStreamlitCall == pc \notin {"start", "unlink"}

Interact(clear) ==
    /\ AtStreamlitCall
    /\ pc' = "start"
    /\ DropLocals
    /\ clear_requested' = clear
    /\ processed' = 0
    /\ qa_raised' = FALSE
    /\ rerun_called' = FALSE
    /\ UNCHANGED <<env, session_state, disk>>

\* st.audio_input (line 141): rendered only when Whisper is available
Record(r) ==
    /\ whisper_available
    /\ audio_file # Some(r)
    /\ Interact(FALSE)
    /\ audio_file' = Some(r)
    /\ text_input' = None
    /\ button' = FALSE
    /\ UNCHANGED output_mode

DiscardRecording ==
    /\ whisper_available
    /\ audio_file # None
    /\ Interact(FALSE)
    /\ audio_file' = None
    /\ text_input' = None
    /\ button' = FALSE
    /\ UNCHANGED output_mode

\* st.chat_input (line 180)
SubmitText(t) ==
    /\ Interact(FALSE)
    /\ text_input' = Some(t)
    /\ button' = FALSE
    /\ UNCHANGED <<audio_file, output_mode>>

\* st.radio (line 188)
SelectMode(m) ==
    /\ m # output_mode
    /\ Interact(FALSE)
    /\ output_mode' = m
    /\ text_input' = None
    /\ button' = FALSE
    /\ UNCHANGED audio_file

\* st.button (line 284)
PressClear ==
    /\ Interact(TRUE)
    /\ button' = TRUE
    /\ text_input' = None
    /\ UNCHANGED <<audio_file, output_mode>>

\* ------------------------------------------------------------------------
\* The script run
\* ------------------------------------------------------------------------
\* Lines 116-146: history initialisation, display, question = None
Setup ==
    /\ pc = "start"
    /\ session_state' =
          IF HasHistory THEN session_state
          ELSE [k \in {"history"} |-> InitialHistory]
    /\ question' = None
    /\ pc' = IF audio_file # None /\ whisper_available THEN "save" ELSE "text"
    /\ UNCHANGED <<env, widgets, selected_context, matched_disease, answer,
                   files, outcomes, counters>>

\* Lines 148-154: the recording is written to a new temporary .wav file
SaveRecording ==
    /\ pc = "save"
    /\ CanCreate(".wav")
    /\ tmp_path' = Some(NewFile(".wav"))
    /\ disk' = disk \cup {NewFile(".wav")}
    /\ pc' = "transcribe"
    /\ UNCHANGED <<env, session_state, widgets, locals, tmp_audio,
                   unlink_failed, outcomes, counters>>

\* Lines 152-153 raise (they are in no try block): the script run ends
\* with the exception, before tmp_path is assigned at line 154.
\* NamedTemporaryFile raises: no file was created; audio_file.read() or
\* tmp.write raises: the file stays on disk.
SaveRecordingFails ==
    /\ pc = "save"
    /\ \/ UNCHANGED disk
       \/ /\ CanCreate(".wav")
          /\ disk' = disk \cup {NewFile(".wav")}
    /\ pc' = "idle"
    /\ EndRun
    /\ UNCHANGED <<env, session_state, counters>>

\* Lines 159-164: result["text"].strip(), kept only when longer than 5
MinLength == 5
AcceptedAnyLength(text) ==
    IF Len(Strip(text)) > 0 THEN Some(Strip(text)) ELSE None
Accepted(text) ==
    IF Len(Strip(text)) > 0 /\ Len(Strip(text)) > MinLength
    THEN Some(Strip(text)) ELSE None

\* Lines 156-168: transcription; any exception discards the question
Transcribe ==
    /\ pc = "transcribe"
    /\ \E raises \in BOOLEAN :
          IF raises
          THEN /\ question' = None
               /\ transcription' = "raised"
          ELSE /\ question' = Accepted(audio_file[1])
               /\ transcription' =
                     IF Accepted(audio_file[1]) # None THEN "ok" ELSE "rejected"
    /\ pc' = "cleanup"
    /\ UNCHANGED <<env, session_state, widgets, selected_context,
                   matched_disease, answer, files, qa_result, counters>>

\* Lines 170-174: os.unlink(tmp_path), errors ignored
CleanupRecording ==
    /\ pc = "cleanup"
    /\ \E unlinked \in BOOLEAN :
          IF unlinked
          THEN /\ disk' = disk \ {tmp_path[1]}
               /\ UNCHANGED unlink_failed
          ELSE /\ unlink_failed' = unlink_failed \cup {tmp_path[1]}
               /\ UNCHANGED disk
    /\ pc' = "text"
    /\ UNCHANGED <<env, session_state, widgets, locals, tmp_path, tmp_audio,
                   outcomes, counters>>

\* Lines 180-182: a non-empty typed text overrides the transcript
TextInput ==
    /\ pc = "text"
    /\ question' = IF Truthy(text_input) THEN text_input ELSE question
    /\ pc' = "respond"
    /\ UNCHANGED <<env, session_state, widgets, selected_context,
                   matched_disease, answer, files, outcomes, counters>>

\* Lines 199 and 239: st.session_state.history.append(message)
AppendMessageAtFront(h, message) == <<message>> \o h
AppendMessage(h, message) == Append(h, message)

\* Lines 188-199: the output mode is read; with a question and the QA
\* model, the user message is appended
AppendUser ==
    /\ pc = "respond"
    /\ Truthy(question)
    /\ qa_pipeline
    /\ Len(history) + 2 <= MaxHistory
    /\ session_state' =
          [session_state EXCEPT !["history"] =
              AppendMessage(@, UserMessage(question[1]))]
    /\ pc' = "select"
    /\ UNCHANGED <<env, widgets, locals, files, outcomes, counters>>

\* Lines 201-237: context selection, time.sleep(1), then the QA call, which
\* returns an answer span or raises, or the not-found answer
Answer ==
    /\ pc = "select"
    /\ LET sel == SelectContext(question[1])
       IN  /\ selected_context' = sel.selected_context
           /\ matched_disease' = sel.matched_disease
           /\ IF sel.selected_context # None
              THEN \/ \E span \in AnswerSpans :
                         /\ answer' = Some(AboutAnswer(sel.matched_disease[1], span))
                         /\ qa_result' = "ok"
                         /\ UNCHANGED qa_raised
                   \/ /\ answer' = Some(ErrorAnswer(sel.matched_disease[1],
                                                    sel.selected_context[1]))
                      /\ qa_result' = "raised"
                      /\ qa_raised' = TRUE
              ELSE /\ answer' = Some(NotFoundMessage)
                   /\ UNCHANGED <<qa_result, qa_raised>>
    /\ pc' = "answered"
    /\ UNCHANGED <<env, session_state, widgets, question, files,
                   transcription, clear_requested, processed, rerun_called>>

\* Line 239: the bot message is appended
AppendBot ==
    /\ pc = "answered"
    /\ session_state' =
          [session_state EXCEPT !["history"] =
              AppendMessage(@, BotMessage(answer[1]))]
    /\ processed' = processed + 1
    /\ pc' = "voice"
    /\ UNCHANGED <<env, widgets, locals, files, outcomes, clear_requested,
                   qa_raised, rerun_called>>

\* Lines 242-246: with "Text + Voice", gTTS(...) and the temporary .mp3
\* file are created; when either raises there is no file (line 255)
CreateReply ==
    /\ pc = "voice"
    /\ IF output_mode = "Text + Voice" /\ Truthy(answer)
       THEN \/ /\ CanCreate(".mp3")
               /\ tmp_audio' = Some(NewFile(".mp3"))
               /\ disk' = disk \cup {NewFile(".mp3")}
               /\ pc' = "tts"
            \/ /\ pc' = "rerun"
               /\ UNCHANGED <<tmp_audio, disk>>
       ELSE /\ pc' = "rerun"
            /\ UNCHANGED <<tmp_audio, disk>>
    /\ UNCHANGED <<env, session_state, widgets, locals, tmp_path,
                   unlink_failed, outcomes, counters>>

\* Lines 247-249: tts.save, the file read and st.audio; when one of them
\* raises, control leaves the with block for line 255, past the unlink
SaveAndPlay ==
    /\ pc = "tts"
    /\ pc' \in {"unlink", "rerun"}
    /\ UNCHANGED <<env, session_state, widgets, locals, files, outcomes,
                   counters>>

\* Lines 250-254: os.unlink(tmp_audio.name), errors ignored
UnlinkReply ==
    /\ pc = "unlink"
    /\ \E unlinked \in BOOLEAN :
          IF unlinked
          THEN /\ disk' = disk \ {tmp_audio[1]}
               /\ UNCHANGED unlink_failed
          ELSE /\ unlink_failed' = unlink_failed \cup {tmp_audio[1]}
               /\ UNCHANGED disk
    /\ pc' = "rerun"
    /\ UNCHANGED <<env, session_state, widgets, locals, tmp_path, tmp_audio,
                   outcomes, counters>>

\* Line 258: st.rerun()
Rerun ==
    /\ pc = "rerun"
    /\ pc' = "start"
    /\ rerun_called' = TRUE
    /\ EndRun
    /\ UNCHANGED <<env, session_state, disk, clear_requested, processed,
                   qa_raised>>

\* Lines 260-261: a question but no QA model: an error is shown
QAUnavailable ==
    /\ pc = "respond"
    /\ Truthy(question)
    /\ ~qa_pipeline
    /\ pc' = "clear"
    /\ UNCHANGED <<env, session_state, widgets, locals, files, outcomes,
                   counters>>

\* Line 198 false, line 260 false: no question in this run
NoQuestion ==
    /\ pc = "respond"
    /\ ~Truthy(question)
    /\ pc' = "clear"
    /\ UNCHANGED <<env, session_state, widgets, locals, files, outcomes,
                   counters>>

\* Lines 284-288: the button was pressed: history reset, st.rerun()
ClearChat ==
    /\ pc = "clear"
    /\ button
    /\ session_state' = [session_state EXCEPT !["history"] = InitialHistory]
    /\ pc' = "start"
    /\ rerun_called' = TRUE
    /\ EndRun
    /\ UNCHANGED <<env, disk, clear_requested, processed, qa_raised>>

\* Line 284 false: the script run ends and the session waits for the user
Finish ==
    /\ pc = "clear"
    /\ ~button
    /\ pc' = "idle"
    /\ EndRun
    /\ UNCHANGED <<env, session_state, disk, counters>>

Next ==
    \/ \E r \in Recordings : Record(r)
    \/ DiscardRecording
    \/ \E t \in TypedTexts : SubmitText(t)
    \/ \E m \in OutputModes : SelectMode(m)
    \/ PressClear
    \/ Setup
    \/ SaveRecording
    \/ SaveRecordingFails
    \/ Transcribe
    \/ CleanupRecording
    \/ TextInput
    \/ AppendUser
    \/ Answer
    \/ AppendBot
    \/ CreateReply
    \/ SaveAndPlay
    \/ UnlinkReply
    \/ Rerun
    \/ QAUnavailable
    \/ NoQuestion
    \/ ClearChat
    \/ Finish

Spec == Init /\ [][Next]_vars

\* ------------------------------------------------------------------------
\* Properties
\* ------------------------------------------------------------------------
\* sub occurs in text at offset i (0-based), character by character
OccursAt(sub, text, i) ==
    /\ i + Len(sub) <= Len(text)
    /\ \A k \in 1..Len(sub) : text[i + k] = sub[k]
Occurs(sub, text) == \E i \in 0..Len(text) : OccursAt(sub, text, i)
\* indices of the knowledge-base keywords that occur in the lower-cased text
MatchingKeywords(text) ==
    {i \in DOMAIN sections : Occurs(sections[i].keyword, Lower(text))}
IsPrefix(s, t) == Len(s) <= Len(t) /\ SubSeq(t, 1, Len(s)) = s
LastMessage == history[Len(history)]
BetweenRuns == pc = "idle" \/ (pc = "start" /\ HasHistory)
\* the run has computed its answer / has appended its bot message
Answered == pc \in {"answered", "voice", "tts", "unlink", "rerun"}
BotAppended == pc \in {"voice", "tts", "unlink", "rerun"}
\* a run with a recording and no typed text whose transcription raised or
\* gave a stripped transcript of 5 characters or fewer
VoiceFailed ==
    /\ pc \notin {"idle", "start"}
    /\ audio_file # None
    /\ whisper_available
    /\ ~Truthy(text_input)
    /\ \/ transcription = "raised"
       \/ transcription # "none" /\ Len(Strip(audio_file[1])) <= 5

\* C1: after the context selection of a question that contains at least one
\* keyword (case-insensitively), the selected context and the matched
\* disease are those of the first such keyword in declaration order, even
\* when a later keyword also occurs in the question.
C1_FirstMatchInDeclarationOrder ==
    (Answered /\ MatchingKeywords(question[1]) # {}) =>
        LET first == CHOOSE i \in MatchingKeywords(question[1]) :
                        \A j \in MatchingKeywords(question[1]) : i <= j
        IN  /\ matched_disease = Some(sections[first].keyword)
            /\ selected_context = Some(sections[first].section)

\* C1 witness: "narrow brown spot" was asked, both "brown spot" (entry 4)
\* and "narrow brown spot" (entry 6) occur in it, and entry 4 was selected.
C1_Witness ==
    /\ pc = "answered"
    /\ question = Some(T_Narrow)
    /\ MatchingKeywords(T_Narrow) = {4, 6}
    /\ matched_disease = Some(sections[4].keyword)

\* C2: when a question that contains no keyword is answered (QA model
\* loaded), nothing is selected, the QA model is not called in the run, the
\* answer is the fixed not-found message, and that message is what is
\* appended as the bot message after the user's question.
C2_NoKeywordGivesNotFound ==
    (Answered /\ MatchingKeywords(question[1]) = {}) =>
        /\ selected_context = None
        /\ matched_disease = None
        /\ qa_result = "none"
        /\ answer = Some(NotFoundMessage)
        /\ BotAppended =>
              /\ LastMessage = BotMessage(NotFoundMessage)
              /\ history[Len(history) - 1] = UserMessage(question[1])

\* C2 witness: "blast" (no keyword) was answered with the not-found message.
C2_Witness ==
    /\ pc = "voice"
    /\ qa_pipeline
    /\ question = Some(T_Short)
    /\ MatchingKeywords(T_Short) = {}
    /\ LastMessage = BotMessage(NotFoundMessage)

\* C3: once an interaction in which the user pressed "Clear Chat History"
\* has called st.rerun(), the history between its script runs, and when the
\* session is idle again, is exactly the greeting.
C3_ClearLeavesOnlyGreeting ==
    (BetweenRuns /\ clear_requested /\ rerun_called) =>
        history = InitialHistory

\* C4: the question of one interaction is processed at most once: no chain
\* of reruns started by one interaction answers a question a second time.
C4_ProcessedOncePerInteraction == processed <= 1

\* C5: from the failed transcription of a run with a recording and no
\* typed text to the end of that run, the question is None and no step
\* other than the Clear handler changes the history, calls the QA model,
\* counts a question as processed or calls st.rerun().
C5_VoiceFailureDiscardsQuestion ==
    [][(VoiceFailed /\ ~(pc = "clear" /\ button)) =>
          /\ question = None
          /\ session_state' = session_state
          /\ qa_result' = "none"
          /\ processed' <= processed
          /\ rerun_called' => rerun_called]_vars

\* C5 witness: the run passed the response section with a 5-character
\* stripped transcript ("blast") and the history still holds only the
\* greeting.
C5_Witness ==
    /\ pc = "clear"
    /\ audio_file = Some(R_Short)
    /\ Strip(R_Short) = T_Short
    /\ text_input = None
    /\ transcription = "rejected"
    /\ question = None
    /\ qa_pipeline
    /\ ~rerun_called
    /\ history = InitialHistory

\* C6: no script run that wrote its recording to a temporary .wav file
\* ends with that file still on disk, unless os.unlink itself failed.
C6_InputFileDeleted ==
    [][(tmp_path # None /\ pc' \in {"idle", "start"}) =>
          \/ tmp_path[1] \notin disk'
          \/ tmp_path[1] \in unlink_failed]_vars

\* C7: when a run that created a reply .mp3 file arrives at st.rerun(),
\* the file is no longer on disk, unless os.unlink itself failed.
C7_ReplyFileDeleted ==
    (pc = "rerun" /\ tmp_audio # None) =>
        \/ tmp_audio[1] \notin disk
        \/ tmp_audio[1] \in unlink_failed

\* C8: an interaction in which a QA call raised answers its question no
\* more than once.
C8_QAFailureAnsweredOnce == qa_raised => processed <= 1

\* C9: every step of a script run other than the Clear handler leaves the
\* previous history as a prefix of the new one.
C9_AppendOnlyUntilCleared ==
    [][HasHistory =>
          \/ pc = "clear" /\ button
          \/ IsPrefix(history, history')]_vars

\* C9 witness: a second question was answered (its QA call raised) on top
\* of an earlier exchange, so the history holds five messages.
C9_Witness ==
    /\ pc = "voice"
    /\ qa_result = "raised"
    /\ Len(history) = 5
    /\ history[1] = BotMessage(Greeting)

\* C10: between script runs the history starts with the bot greeting and
\* then alternates user, bot, so its length is odd; with the QA model not
\* loaded it never holds more than the greeting.
C10_HistoryShape ==
    BetweenRuns =>
        /\ Len(history) >= 1
        /\ history[1] = BotMessage(Greeting)
        /\ Len(history) % 2 = 1
        /\ \A i \in 2..Len(history) :
              history[i].role = IF i % 2 = 0 THEN "user" ELSE "bot"
        /\ ~qa_pipeline => history = InitialHistory
====
